---- MODULE Spec2Model ----
(***************************************************************************)
(* Verification model of the bounded-history memory-trend monitor of       *)
(* node-memory-leak (src/lib/memory-monitor.js, createMemoryMonitor).      *)
(*                                                                         *)
(* One monitor instance is modelled together with its host: the interval   *)
(* timers created by start(), the stop handles start() returned, and the   *)
(* caller that reads the buffer through getSnapshots().  JavaScript runs   *)
(* every timer callback to completion, so one timer expiry (one run of     *)
(* monitor()) is one atomic step.                                          *)
(*                                                                         *)
(* Further specifications model two monitors in one host (SpecPair), the   *)
(* trend analyzers as functions of the buffer (SpecTrend), the leaky HTTP  *)
(* servers of the examples (SpecServer), monitorForDuration                *)
(* (SpecDuration), createMemoryLogger (SpecLogger), the managed cache of   *)
(* the timer example (SpecCache) and the processors of the event example   *)
(* (SpecEmitter).  Each specification moves its own variables and leaves   *)
(* the others at their initial values.                                     *)
(***************************************************************************)
EXTENDS Integers, Sequences, FiniteSets, TLC

(***************************************************************************)
(* Bounds of the model.                                                    *)
(***************************************************************************)
MaxCap == 5            \* largest configured maxSnapshots explored
MaxTicks == 6          \* snapshots captured per behaviour
MaxStarts == 2         \* start() calls explored per behaviour
MaxMutations == 2      \* caller's changes explored per array getSnapshots() returned
HeapValues == {100, 140}    \* heapUsed readings the host may report
MaxLen == 6            \* longest buffer handed to the trend analyzers
MaxPairTicks == 3      \* snapshots captured by the two monitors together
MaxPairStarts == 1     \* start() calls explored per monitor of the two
MaxRequests == 3       \* requests handled by a server
MaxUpdates == 6        \* updates of a managed cache
MaxCacheId == 2        \* largest id given to a managed cache
MaxLeaky == 3          \* createLeakyProcessor calls explored
MaxManaged == 3        \* createManagedProcessor calls explored
TrendHeap == {0, 100, 105, 110, 120}    \* heapUsed readings of those buffers
Capacities == {1, 3, 5, MaxCap}    \* configured maxSnapshots explored
AnyHeapValue == CHOOSE x \in HeapValues : TRUE

(***************************************************************************)
(* Program constants.                                                      *)
(***************************************************************************)
ThresholdNum == 11     \* threshold = 1.1 = ThresholdNum / ThresholdDen
ThresholdDen == 10
MinSamples == 5        \* monitor(): if (updated.length >= 5)
MinConfidenceSamples == 5   \* analyzer's high-confidence sample count
RecentCount == 5       \* MemoryMonitor.analyzeTrend: this.measurements.slice(-5)
ClassThresholdNum == 11    \* MemoryMonitor.analyzeTrend: first * 1.1
ClassThresholdDen == 10
CacheSize == 100000    \* createCacheData = (id, size = 100000)

VARIABLES
    maxSnapshots,      \* configuration: buffer capacity
    onLeak,            \* configuration: TRUE iff an onLeak callback was supplied
    alive,             \* host: FALSE once an uncaught exception has ended it
    snapshots,         \* the monitor's buffer (let snapshots)
    started,           \* number of start() calls so far; timer ids are 1..started
    timers,            \* ids of the interval timers still scheduled
    invoked,           \* the stop handles invoked at least once
    captured,          \* history: every snapshot captured so far, in order
    leakCalls,         \* history: every onLeak invocation (trend and buffer seen)
    lastOp,            \* history: the operation that produced this state
    returned,          \* caller: the array the last getSnapshots() returned
    aliased,           \* TRUE iff that array is the very array the monitor holds
    mutations,         \* caller: changes made to that array so far
    measurements,      \* trend analysis: the buffer handed to the analyzers
    libTrend,          \* trend analysis: what analyzeTrend returned for it
    classTrend,        \* trend analysis: what MemoryMonitor.analyzeTrend returned
    closures,          \* two monitors: the closure state of each createMemoryMonitor call
    hostTimers,        \* two monitors: ids of the host's scheduled interval timers
    handles,           \* two monitors: the monitor each start() call belongs to, in call order
    pairClock,         \* two monitors: snapshots captured so far by either
    pairOp,            \* two monitors: the operation that produced this state
    serverKind,        \* server: which of the two leaky servers runs
    serverState,       \* server: request count, request cache, sessions, connections
    trace,             \* server: the steps run for the last request, in order
    response,          \* server: the answer to the last request
    requested,         \* server history: the url of every request so far, in order
    durSnapshots,      \* monitorForDuration: const snapshots
    durTimers,         \* monitorForDuration: which of its two timers are scheduled
    promise,           \* monitorForDuration: the promise it returned
    durOp,             \* monitorForDuration: the callback that produced this state
    logged,            \* logger: every snapshot logged so far and what logged it
    loggerStarted,     \* logger: number of start() calls so far; timer ids are 1..loggerStarted
    loggerTimers,      \* logger: ids of its interval timers still scheduled
    loggerInvoked,     \* logger: the cleanup functions invoked at least once
    loggerOp,          \* logger: the operation that produced this state
    cacheState,        \* managed cache: let state of createManagedCache
    cacheTimer,        \* managed cache: its interval timer, while scheduled
    observed,          \* managed cache: what the last getState() returned
    cacheOp,           \* managed cache: the operation that produced this state
    listeners,         \* emitter: the 'process' listeners of globalEmitter, in order
    leakyProcessors,   \* emitter: number of createLeakyProcessor calls so far
    managedResources,  \* emitter: the handler of each createManagedProcessor call, in order
    cleaned,           \* emitter: the managed resources whose cleanup was invoked at least once
    emitterOp          \* emitter: the operation that produced this state

monitorVars == <<maxSnapshots, onLeak, alive, snapshots, started,
                 timers, invoked, captured, leakCalls, lastOp, returned, aliased, mutations>>

trendVars == <<measurements, libTrend, classTrend>>

pairVars == <<closures, hostTimers, handles, pairClock, pairOp>>

serverVars == <<serverKind, serverState, trace, response, requested>>

durationVars == <<durSnapshots, durTimers, promise, durOp>>

loggerVars == <<logged, loggerStarted, loggerTimers, loggerInvoked, loggerOp>>

cacheVars == <<cacheState, cacheTimer, observed, cacheOp>>

emitterVars == <<listeners, leakyProcessors, managedResources, cleaned, emitterOp>>

utilVars == <<durationVars, loggerVars, cacheVars, emitterVars>>

vars == <<monitorVars, trendVars, pairVars, serverVars, utilVars>>

\* What an operation of the monitor leaves alone.
outside == <<trendVars, pairVars, serverVars, utilVars>>

caller == <<returned, aliased, mutations>>

config == <<maxSnapshots, onLeak>>

(***************************************************************************)
(* functional-utils.js helpers used by the monitor.                        *)
(***************************************************************************)
\* getMemorySnapshot(): an immutable record of the host's counters, stamped
\* with the instant of capture.
getMemorySnapshot(now, heapUsed) == [timestamp |-> now, heapUsed |-> heapUsed]

\* append(item)(arr) = [...arr, item]
append(item, arr) == arr \o <<item>>

\* keepLast(n)(arr): the last n elements of arr, oldest first.
keepLast(n, arr) ==
    IF Len(arr) <= n THEN arr ELSE SubSeq(arr, Len(arr) - n + 1, Len(arr))

Min(a, b) == IF a <= b THEN a ELSE b

\* Rounding of num/den (den > 0) to the nearest integer, halves away from zero.
RoundDiv(num, den) ==
    IF num >= 0 THEN (2 * num + den) \div (2 * den)
                ELSE -((2 * (-num) + den) \div (2 * den))

\* analyzeTrend(snapshots, threshold): two-point comparison of the oldest and
\* the newest snapshot.  growthRate is in hundredths of a percent (two
\* decimals), the threshold is the fraction num/den.
analyzeTrend(snaps, num, den) ==
    IF Len(snaps) < 2
    THEN [isGrowing |-> FALSE, growthRate |-> 0, confidence |-> "insufficient_data"]
    ELSE LET first == snaps[1].heapUsed
             last == snaps[Len(snaps)].heapUsed
             conf == IF Len(snaps) >= MinConfidenceSamples THEN "high" ELSE "low"
         IN IF first <= 0
            THEN [isGrowing |-> FALSE, growthRate |-> 0, confidence |-> conf]
            ELSE [isGrowing |-> last * den > first * num,
                  growthRate |-> RoundDiv((last - first) * 10000, first),
                  confidence |-> conf]

\* Number.prototype.toFixed(2) of a finite value given in hundredths (after
\* rounding) and its sign before rounding: the decimal string, two decimals.
Pad2(n) == IF n < 10 THEN "0" \o ToString(n) ELSE ToString(n)

toFixed2(negative, hundredths) ==
    LET abs == IF hundredths < 0 THEN -hundredths ELSE hundredths
    IN (IF negative THEN "-" ELSE "") \o ToString(abs \div 100) \o "." \o Pad2(abs % 100)

\* ((last - first) / first * 100).toFixed(2): IEEE division by zero gives
\* Infinity (or NaN for 0/0), which toFixed renders by name.
classGrowthRate(first, last) ==
    IF first = 0
    THEN IF last > 0 THEN "Infinity" ELSE IF last < 0 THEN "-Infinity" ELSE "NaN"
    ELSE toFixed2((last - first < 0) # (first < 0),
                  RoundDiv((last - first) * 10000, first))

\* Faulty variants of MemoryMonitor.analyzeTrend: equality counts as growth;
\* the rate is taken relative to the newest measurement.
MemoryMonitor_analyzeTrendNonStrict(ms) ==
    IF ms = <<>>
    THEN [isGrowing |-> FALSE, growthRate |-> "", error |-> "TypeError"]
    ELSE LET recent == keepLast(RecentCount, ms)
             first == recent[1].heapUsed
             last == recent[Len(recent)].heapUsed
         IN [isGrowing |-> last * ClassThresholdDen >= first * ClassThresholdNum,
             growthRate |-> classGrowthRate(first, last),
             error |-> "none"]

MemoryMonitor_analyzeTrendOfLast(ms) ==
    IF ms = <<>>
    THEN [isGrowing |-> FALSE, growthRate |-> "", error |-> "TypeError"]
    ELSE LET recent == keepLast(RecentCount, ms)
             first == recent[1].heapUsed
             last == recent[Len(recent)].heapUsed
         IN [isGrowing |-> last * ClassThresholdDen > first * ClassThresholdNum,
             growthRate |-> classGrowthRate(last, 2 * last - first),
             error |-> "none"]

\* MemoryMonitor.analyzeTrend() of examples/demo.js on measurements ms: the
\* oldest and the newest of the last 5 measurements are compared; reading
\* heapUsed of recent[0] of an empty array raises a TypeError.
MemoryMonitor_analyzeTrend(ms) ==
    IF ms = <<>>
    THEN [isGrowing |-> FALSE, growthRate |-> "", error |-> "TypeError"]
    ELSE LET recent == keepLast(RecentCount, ms)
             first == recent[1].heapUsed
             last == recent[Len(recent)].heapUsed
         IN [isGrowing |-> last * ClassThresholdDen > first * ClassThresholdNum,
             growthRate |-> classGrowthRate(first, last),
             error |-> "none"]

\* clearInterval(timerId): the timer is no longer scheduled; an id that is not
\* scheduled (already cleared, or undefined) is ignored.
clearInterval(timerId, active) == active \ {timerId}

\* createTimerCleanup(timerId) = () => clearInterval(timerId): the effect of
\* invoking the returned function on the set of scheduled timers.
createTimerCleanup(timerId, active) == clearInterval(timerId, active)

(***************************************************************************)
(* createMemoryMonitor                                                     *)
(***************************************************************************)
\* Faulty variants of addSnapshot: the buffer is never trimmed; the newest
\* entries are dropped instead of the oldest.
addSnapshotUnbounded(snapshot, snaps) == append(snapshot, snaps)

addSnapshotKeepFirst(snapshot, snaps) ==
    LET all == append(snapshot, snaps)
    IN IF Len(all) <= maxSnapshots THEN all ELSE SubSeq(all, 1, maxSnapshots)

\* addSnapshot(snapshot): the new buffer.
addSnapshot(snapshot, snaps) == keepLast(maxSnapshots, append(snapshot, snaps))

\* Faulty variants of monitor(): the trend is analysed from 2 snapshots on;
\* the trend is analysed as soon as the buffer is full.
monitorGateTwo(snapshot, snaps) ==
    LET updated == addSnapshot(snapshot, snaps)
        analysed == Len(updated) >= 2
        trend == analyzeTrend(updated, ThresholdNum, ThresholdDen)
    IN [updated |-> updated,
        analysed |-> analysed,
        trend |-> trend,
        notify |-> analysed /\ trend.isGrowing /\ onLeak]

monitorGateFull(snapshot, snaps) ==
    LET updated == addSnapshot(snapshot, snaps)
        analysed == Len(updated) >= Min(MinSamples, maxSnapshots)
        trend == analyzeTrend(updated, ThresholdNum, ThresholdDen)
    IN [updated |-> updated,
        analysed |-> analysed,
        trend |-> trend,
        notify |-> analysed /\ trend.isGrowing /\ onLeak]

\* Faulty variant of monitor(): the trend is analysed before the snapshot of
\* the tick is appended.
monitorAnalyseFirst(snapshot, snaps) ==
    LET updated == addSnapshot(snapshot, snaps)
        analysed == Len(updated) >= MinSamples
        trend == analyzeTrend(snaps, ThresholdNum, ThresholdDen)
    IN [updated |-> updated,
        analysed |-> analysed,
        trend |-> trend,
        notify |-> analysed /\ trend.isGrowing /\ onLeak]

\* Faulty variant of monitor(): onLeak is invoked on every tick.
monitorNotifyAlways(snapshot, snaps) ==
    LET updated == addSnapshot(snapshot, snaps)
        trend == analyzeTrend(updated, ThresholdNum, ThresholdDen)
    IN [updated |-> updated,
        analysed |-> TRUE,
        trend |-> trend,
        notify |-> onLeak]

\* Faulty variant of monitor(): onLeak is called without asking whether a
\* callback was supplied.
monitorNoCallbackCheck(snapshot, snaps) ==
    LET updated == addSnapshot(snapshot, snaps)
        analysed == Len(updated) >= MinSamples
        trend == analyzeTrend(updated, ThresholdNum, ThresholdDen)
    IN [updated |-> updated,
        analysed |-> analysed,
        trend |-> trend,
        notify |-> analysed /\ trend.isGrowing]

\* Faulty variant of getSnapshots: the buffer itself is handed out.
getSnapshotsSameArray == [array |-> snapshots, fresh |-> FALSE]

\* getSnapshots() = [...snapshots]: a fresh array with the buffer's elements.
getSnapshots == [array |-> snapshots, fresh |-> TRUE]

\* monitor(), its decisions once the snapshot is captured: the updated buffer,
\* the trend, and whether onLeak is invoked.
monitor(snapshot, snaps) ==
    LET updated == addSnapshot(snapshot, snaps)
        analysed == Len(updated) >= MinSamples
        trend == analyzeTrend(updated, ThresholdNum, ThresholdDen)
    IN [updated |-> updated,
        analysed |-> analysed,
        trend |-> trend,
        notify |-> analysed /\ trend.isGrowing /\ onLeak]

\* Faulty variant: monitor() catches and drops what onLeak throws.
TickOutcomeSwallow(captureFails, notified, callback) ==
    IF captureFails THEN "captureError" ELSE "ok"

\* monitor() has no try/catch: an exception of getMemorySnapshot or of onLeak
\* leaves the timer callback uncaught.
TickOutcome(captureFails, notified, callback) ==
    IF captureFails THEN "captureError"
    ELSE IF notified /\ callback = "throw" THEN "onLeakError"
    ELSE "ok"

\* Variant: the failing callback clears its own interval.
AfterCaptureErrorCleared(t, active) == clearInterval(t, active)

\* The timers scheduled after getMemorySnapshot() threw in the callback of
\* timer t: nothing catches the exception and nothing clears the interval.
AfterCaptureError(t, active) == active

\* Faulty variant: monitor() cancels its timer when onLeak throws.
AfterOnLeakErrorCleared(t, active) == clearInterval(t, active)

\* The timers scheduled after onLeak threw in the tick of timer t: monitor()
\* catches nothing and clears nothing.
AfterOnLeakError(t, active) == active

\* Faulty variant: the monitor is scheduled with setTimeout, for one expiry.
RearmedOnce(t, active) == active \ {t}

\* setInterval(monitor, interval): the timer stays scheduled after an expiry
\* whose callback returned.
Rearmed(t, active) == active

\* Faulty variants of the stop handle: createTimerCleanup() is given no timer
\* id; the timer id is kept in one variable shared by every start().
HandleTargetUndefined(h) == 0

HandleTargetShared(h) == started

\* The timer the h-th stop handle clears: start() closes over its own
\* const timerId, and the h-th start() created timer h.
HandleTarget(h) == h

\* lastOp: op is the operation; for a tick, outcome is what left the timer
\* callback, notified whether onLeak was invoked and threw whether it threw; for
\* an invocation of a stop handle, handle is the handle and again whether it
\* had been invoked before.
NoOp == [op |-> "create", outcome |-> "ok", notified |-> FALSE, threw |-> FALSE,
         handle |-> 0, again |-> FALSE]

\* The trend analyzers have analysed nothing.
NoTrend == [isGrowing |-> FALSE, growthRate |-> 0, confidence |-> "none"]

NoClassTrend == [isGrowing |-> FALSE, growthRate |-> "", error |-> "notCalled"]

TrendIdle ==
    /\ measurements = <<>>
    /\ libTrend = NoTrend
    /\ classTrend = NoClassTrend

\* The two monitors of the pair.
Monitors == {1, 2}

NoPairOp == [op |-> "create", monitor |-> 0, notified |-> FALSE]

\* Two createMemoryMonitor calls: two closures, each with let snapshots = [].
PairIdle ==
    /\ closures = [m \in Monitors |-> [snapshots |-> <<>>]]
    /\ hostTimers = {}
    /\ handles = <<>>
    /\ pairClock = 0
    /\ pairOp = NoPairOp

\* createInitialState(): nothing cached, no session, no connection.
createInitialState ==
    [requestCount |-> 0, requestCache |-> <<>>, userSessions |-> {},
     connections |-> <<>>]

\* createStats(): the counters a /stats answer reports.
createStats(st) ==
    [requests |-> st.requestCount,
     cachedRequests |-> Len(st.requestCache),
     activeSessions |-> Cardinality(st.userSessions),
     connections |-> Len(st.connections)]

NoResponse == [status |-> 0, body |-> "none", stats |-> createStats(createInitialState)]

ServerIdle ==
    /\ serverKind = "none"
    /\ serverState = createInitialState
    /\ trace = <<>>
    /\ response = NoResponse
    /\ requested = <<>>

\* monitorForDuration has not been called: no promise, no timer.
NoPromise == [state |-> "none", value |-> "none", length |-> 0]

DurationIdle ==
    /\ durSnapshots = <<>>
    /\ durTimers = {}
    /\ promise = NoPromise
    /\ durOp = "none"

\* createMemoryLogger(): a logger that has logged nothing.
NoLoggerOp == [op |-> "create", handle |-> 0, again |-> FALSE]

LoggerIdle ==
    /\ logged = <<>>
    /\ loggerStarted = 0
    /\ loggerTimers = {}
    /\ loggerInvoked = {}
    /\ loggerOp = NoLoggerOp

\* No managed cache has been made.
NoCacheState == [id |-> 0, cache |-> [filled |-> 0, updates |-> <<>>], updateCount |-> 0]

CacheIdle ==
    /\ cacheState = NoCacheState
    /\ cacheTimer = {}
    /\ observed = NoCacheState
    /\ cacheOp = "none"

\* const globalEmitter = new EventEmitter(): no listener, no processor.
NoEmitterOp == [op |-> "create", resource |-> 0, again |-> FALSE]

EmitterIdle ==
    /\ listeners = <<>>
    /\ leakyProcessors = 0
    /\ managedResources = <<>>
    /\ cleaned = {}
    /\ emitterOp = NoEmitterOp

UtilIdle == DurationIdle /\ LoggerIdle /\ CacheIdle /\ EmitterIdle

\* createMemoryMonitor(options): an idle monitor with an empty buffer.
CreateMonitor ==
    /\ maxSnapshots \in Capacities
    /\ onLeak \in BOOLEAN
    /\ alive = TRUE
    /\ snapshots = <<>>
    /\ started = 0
    /\ timers = {}
    /\ invoked = {}
    /\ captured = <<>>
    /\ leakCalls = <<>>
    /\ lastOp = NoOp
    /\ returned = <<>>
    /\ aliased = FALSE
    /\ mutations = 0

Init ==
    /\ CreateMonitor
    /\ UtilIdle
    /\ TrendIdle
    /\ PairIdle
    /\ ServerIdle

\* Variant of start(): a start() replaces the timer scheduled before.
StartRestart ==
    /\ alive
    /\ started < MaxStarts
    /\ started' = started + 1
    /\ timers' = {started + 1}
    /\ lastOp' = [NoOp EXCEPT !.op = "start", !.handle = started + 1]
    /\ UNCHANGED <<config, alive, snapshots, invoked, captured, leakCalls, caller>>
    /\ UNCHANGED outside

\* Variant of start(): monitor() is run once before the timer is scheduled.
StartImmediate ==
    /\ alive
    /\ started < MaxStarts
    /\ started' = started + 1
    /\ timers' = timers \cup {started + 1}
    /\ snapshots' = addSnapshot(getMemorySnapshot(Len(captured) + 1, AnyHeapValue), snapshots)
    /\ captured' = Append(captured, getMemorySnapshot(Len(captured) + 1, AnyHeapValue))
    /\ lastOp' = [NoOp EXCEPT !.op = "start", !.handle = started + 1]
    /\ UNCHANGED <<config, alive, invoked, leakCalls, caller>>
    /\ UNCHANGED outside

\* Variant of start(): every start() begins with an empty buffer.
StartFresh ==
    /\ alive
    /\ started < MaxStarts
    /\ started' = started + 1
    /\ timers' = timers \cup {started + 1}
    /\ snapshots' = <<>>
    /\ lastOp' = [NoOp EXCEPT !.op = "start", !.handle = started + 1]
    /\ UNCHANGED <<config, alive, invoked, captured, leakCalls, caller>>
    /\ UNCHANGED outside

\* start(): setInterval(monitor, interval), and the stop handle for that timer.
Start ==
    /\ alive
    /\ started < MaxStarts
    /\ started' = started + 1
    /\ timers' = timers \cup {started + 1}
    /\ lastOp' = [NoOp EXCEPT !.op = "start", !.handle = started + 1]
    /\ UNCHANGED <<config, alive, snapshots, invoked, captured, leakCalls, caller>>
    /\ UNCHANGED outside

\* The caller invokes the h-th stop handle.
StopHandle(h) ==
    /\ alive
    /\ h \in 1..started
    /\ timers' = createTimerCleanup(HandleTarget(h), timers)
    /\ invoked' = invoked \cup {h}
    /\ lastOp' = [NoOp EXCEPT !.op = "stop", !.handle = h, !.again = (h \in invoked)]
    /\ UNCHANGED <<config, alive, snapshots, started, captured, leakCalls, caller>>
    /\ UNCHANGED outside

\* A scheduled timer expires and runs monitor().  addSnapshot builds the new
\* buffer as a new array, which no array handed out before can be.  The host reports heapUsed, or
\* the capture fails; the callback, when invoked, returns, throws, or invokes
\* the h-th stop handle (and returns).  An exception that leaves the timer
\* callback ends the host unless it handles uncaught exceptions (survives).
Tick(t, captureFails, heapUsed, callback, h, survives) ==
    /\ alive
    /\ t \in timers
    /\ captureFails \/ Len(captured) < MaxTicks
    /\ LET snapshot == getMemorySnapshot(Len(captured) + 1, heapUsed)
           m == monitor(snapshot, snapshots)
           notified == ~captureFails /\ m.notify
           outcome == TickOutcome(captureFails, notified, callback)
           stops == notified /\ callback = "stop" /\ h \in 1..started
       IN /\ snapshots' = IF captureFails THEN snapshots ELSE m.updated
          /\ captured' = IF captureFails THEN captured ELSE Append(captured, snapshot)
          /\ leakCalls' = IF notified
                          THEN Append(leakCalls, [trend |-> m.trend, buffer |-> m.updated])
                          ELSE leakCalls
          /\ timers' = IF captureFails THEN AfterCaptureError(t, timers)
                       ELSE IF stops
                            THEN createTimerCleanup(HandleTarget(h), Rearmed(t, timers))
                       ELSE IF outcome = "onLeakError"
                            THEN AfterOnLeakError(t, Rearmed(t, timers))
                       ELSE Rearmed(t, timers)
          /\ invoked' = IF stops THEN invoked \cup {h} ELSE invoked
          /\ alive' = (outcome = "ok" \/ survives)
          /\ lastOp' = [NoOp EXCEPT !.op = "tick", !.outcome = outcome,
                                   !.notified = notified,
                                   !.threw = notified /\ callback = "throw",
                                   !.handle = IF stops THEN h ELSE 0,
                                   !.again = stops /\ h \in invoked]
    /\ aliased' = (captureFails /\ aliased)
    /\ UNCHANGED <<config, started, returned, mutations>>
    /\ UNCHANGED outside

\* The inputs of a tick, each drawn where it has an effect: a failed capture
\* reads no heapUsed and reaches no callback, only a thrown exception asks
\* whether the host survives, only a stopping callback names a handle.
TickStep ==
    \/ \E t \in timers, survives \in BOOLEAN :
          Tick(t, TRUE, AnyHeapValue, "return", 1, survives)
    \/ \E t \in timers, heapUsed \in HeapValues :
          Tick(t, FALSE, heapUsed, "return", 1, TRUE)
    \/ \E t \in timers, heapUsed \in HeapValues, survives \in BOOLEAN :
          Tick(t, FALSE, heapUsed, "throw", 1, survives)
    \/ \E t \in timers, heapUsed \in HeapValues, h \in 1..started :
          Tick(t, FALSE, heapUsed, "stop", h, TRUE)

StopStep == \E h \in 1..MaxStarts : StopHandle(h)

Next == Start \/ StopStep \/ TickStep

Spec == Init /\ [][Next]_vars

(***************************************************************************)
(* The caller of getSnapshots().                                           *)
(***************************************************************************)
Reverse(seq) == [i \in 1..Len(seq) |-> seq[Len(seq) + 1 - i]]

\* The caller calls getSnapshots() and keeps the array.
GetSnapshots ==
    /\ alive
    /\ returned' = getSnapshots.array
    /\ aliased' = ~getSnapshots.fresh
    /\ mutations' = 0
    /\ lastOp' = [NoOp EXCEPT !.op = "get"]
    /\ UNCHANGED <<config, alive, snapshots, started, timers, invoked, captured, leakCalls>>
    /\ UNCHANGED outside

\* The caller changes the array it holds: it pushes a snapshot of its own
\* making, shifts the oldest element out, or reverses the array.  An array
\* that is the monitor's own changes for the monitor too.
Mutate(kind, heapUsed) ==
    /\ alive
    /\ mutations < MaxMutations
    /\ kind = "shift" => returned # <<>>
    /\ kind = "reverse" => Len(returned) >= 2
    /\ LET changed == CASE kind = "push" -> Append(returned, getMemorySnapshot(0, heapUsed))
                         [] kind = "shift" -> Tail(returned)
                         [] kind = "reverse" -> Reverse(returned)
       IN /\ returned' = changed
          /\ snapshots' = IF aliased THEN changed ELSE snapshots
    /\ mutations' = mutations + 1
    /\ lastOp' = [NoOp EXCEPT !.op = "mutate"]
    /\ UNCHANGED <<config, alive, started, timers, invoked, captured, leakCalls, aliased>>
    /\ UNCHANGED outside

MutateStep ==
    \E kind \in {"push", "shift", "reverse"}, heapUsed \in HeapValues :
        Mutate(kind, heapUsed)

\* Ticks that capture, with a callback that returns.
TickCopy ==
    \E t \in timers, heapUsed \in HeapValues :
        Tick(t, FALSE, heapUsed, "return", 1, TRUE)

\* A monitor of the largest capacity, with a callback.
InitCopy ==
    /\ Init
    /\ maxSnapshots = MaxCap
    /\ onLeak

NextCopy == Start \/ TickCopy \/ GetSnapshots \/ MutateStep

SpecCopy == InitCopy /\ [][NextCopy]_vars

(***************************************************************************)
(* The monitor under a timer that keeps firing: as long as an interval is  *)
(* scheduled and the host lives, its next expiry comes.  The caller may    *)
(* read the buffer in between.  The monitor has a callback and a capacity  *)
(* below the captures explored.                                            *)
(***************************************************************************)
InitLive ==
    /\ Init
    /\ maxSnapshots = MaxCap
    /\ onLeak

\* Ticks whose callback invokes a stop handle.
TickStop ==
    \E t \in timers, heapUsed \in HeapValues, h \in 1..started :
        Tick(t, FALSE, heapUsed, "stop", h, TRUE)

NextLive == Start \/ StopStep \/ TickCopy \/ TickStop \/ GetSnapshots

SpecLive == InitLive /\ [][NextLive]_vars /\ WF_vars(TickCopy)

(***************************************************************************)
(* Two monitors created by two createMemoryMonitor calls with the same     *)
(* options, in one host: each call makes its own closure (let snapshots),  *)
(* each start() its own host timer, whose id only its stop handle holds.   *)
(***************************************************************************)
\* Variant of createMemoryMonitor: the buffer is one module-level variable
\* that every monitor uses.
ClosureOfShared(m) == 1

\* The closure monitor m works on: the one its createMemoryMonitor call made.
ClosureOf(m) == m

\* The timers among active that starts of monitor m scheduled, hs being the
\* monitor of every start() call so far.
TimersOf(m, active, hs) == {id \in active : hs[id] = m}

\* start() of monitor m: a new host timer, and its stop handle.
PairStart(m) ==
    /\ Cardinality({k \in 1..Len(handles) : handles[k] = m}) < MaxPairStarts
    /\ handles' = Append(handles, m)
    /\ hostTimers' = hostTimers \cup {Len(handles) + 1}
    /\ pairOp' = [NoPairOp EXCEPT !.op = "start", !.monitor = m]
    /\ UNCHANGED <<closures, pairClock, monitorVars, trendVars, serverVars, utilVars>>

\* The stop handle the k-th start() returned is invoked.
PairStop(k) ==
    /\ k \in 1..Len(handles)
    /\ hostTimers' = createTimerCleanup(HandleTarget(k), hostTimers)
    /\ pairOp' = [NoPairOp EXCEPT !.op = "stop", !.monitor = handles[k]]
    /\ UNCHANGED <<closures, handles, pairClock, monitorVars, trendVars, serverVars, utilVars>>

\* Host timer id expires: monitor() of the monitor that scheduled it runs.
PairTick(id, heapUsed) ==
    /\ id \in hostTimers
    /\ pairClock < MaxPairTicks
    /\ LET m == handles[id]
           snapshot == getMemorySnapshot(pairClock + 1, heapUsed)
           run == monitor(snapshot, closures[ClosureOf(m)].snapshots)
       IN /\ closures' = [closures EXCEPT ![ClosureOf(m)].snapshots = run.updated]
          /\ pairOp' = [NoPairOp EXCEPT !.op = "tick", !.monitor = m,
                                       !.notified = run.notify]
    /\ pairClock' = pairClock + 1
    /\ hostTimers' = Rearmed(id, hostTimers)
    /\ UNCHANGED <<handles, monitorVars, trendVars, serverVars, utilVars>>

PairStartStep == \E m \in Monitors : PairStart(m)

PairStopStep == \E k \in 1..Len(handles) : PairStop(k)

PairTickStep == \E id \in hostTimers, heapUsed \in HeapValues : PairTick(id, heapUsed)

InitPair ==
    /\ CreateMonitor
    /\ UtilIdle
    /\ maxSnapshots \in {1, 3}
    /\ onLeak
    /\ TrendIdle
    /\ PairIdle
    /\ ServerIdle

NextPair == PairStartStep \/ PairStopStep \/ PairTickStep

SpecPair == InitPair /\ [][NextPair]_vars

(***************************************************************************)
(* The leaky HTTP servers: examples/leaky-server.js, whose handler runs    *)
(* its statements in line, and the functional server, whose handler runs   *)
(* a middleware pipeline.  A request is handled to completion in one step. *)
(***************************************************************************)
Routes == {"/", "/stats", "/health", "/missing"}

\* Variant: every session is stored under one key.
sessionIdFixed(count) == 0

\* `session-${requestCount}`: the key of the session a request creates.
sessionId(count) == count

\* What one step of a request does to the server's state; log records the
\* steps in the order they ran.
\*   logRequest     requestCount++ (incrementRequestCount)
\*   cacheRequest   requestCache.push(record)
\*   createSession  userSessions.set(sessionId, session)
\*   getConnection  connections.push({id: connections.length, ...})
\*   routeRequest   answers; changes nothing
RunStep(name, st, url) ==
    LET ran == [st EXCEPT !.log = Append(st.log, name)]
    IN CASE name = "logRequest" ->
              [ran EXCEPT !.requestCount = st.requestCount + 1]
         [] name = "cacheRequest" ->
              [ran EXCEPT !.requestCache = Append(st.requestCache, url)]
         [] name = "createSession" ->
              [ran EXCEPT !.userSessions = st.userSessions \cup {sessionId(st.requestCount)}]
         [] name = "getConnection" ->
              [ran EXCEPT !.connections = Append(st.connections, Len(st.connections))]
         [] OTHER -> ran

RECURSIVE RunAll(_, _, _)
RunAll(steps, st, url) ==
    IF steps = <<>> THEN st
    ELSE RunAll(Tail(steps), RunStep(Head(steps), st, url), url)

\* createMiddleware(fn)(req, res, next): fn runs, then next: the steps that
\* calling () => middleware(req, res, next) runs.
createMiddleware(fn, next) == <<fn>> \o next

\* middlewares.reduce((next, middleware) => () => middleware(req, res, next),
\*                    () => handler(req, res)): from the i-th middleware on,
\* each wraps the chain built so far.
RECURSIVE reduceFrom(_, _, _)
reduceFrom(middlewares, i, next) ==
    IF i > Len(middlewares) THEN next
    ELSE reduceFrom(middlewares, i + 1, createMiddleware(middlewares[i], next))

\* applyMiddleware(...middlewares)(req, res, handler): the steps the call
\* runs, in order.
applyMiddleware(middlewares, handler) == reduceFrom(middlewares, 1, <<handler>>)

\* The pipeline of requestHandler, as written.
Pipeline == <<"logRequest", "cacheRequest", "createSession", "getConnection">>

\* The statements of the handler of leaky-server.js, in line.
InlineSteps ==
    <<"logRequest", "cacheRequest", "createSession", "getConnection", "routeRequest">>

\* routeRequest / the if-chain on req.url: the answer, from the state in
\* which the route handler runs.
routeRequest(st, url) ==
    [status |-> IF url \in {"/", "/stats", "/health"} THEN 200 ELSE 404,
     body |-> CASE url = "/" -> "hello"
                [] url = "/stats" -> "stats"
                [] url = "/health" -> "OK"
                [] OTHER -> "Not Found",
     stats |-> IF url = "/stats" THEN createStats(st) ELSE createStats(createInitialState)]

\* The server handles a request for url, running steps.
HandleRequest(url, steps) ==
    /\ Len(requested) < MaxRequests
    /\ LET start == [requestCount |-> serverState.requestCount,
                     requestCache |-> serverState.requestCache,
                     userSessions |-> serverState.userSessions,
                     connections |-> serverState.connections,
                     log |-> <<>>]
           end == RunAll(steps, start, url)
       IN /\ serverState' = [requestCount |-> end.requestCount,
                             requestCache |-> end.requestCache,
                             userSessions |-> end.userSessions,
                             connections |-> end.connections]
          /\ trace' = end.log
          /\ response' = routeRequest(end, url)
    /\ requested' = Append(requested, url)
    /\ UNCHANGED <<serverKind, monitorVars, trendVars, pairVars, utilVars>>

\* http.createServer((req, res) => ...) of leaky-server.js.
ClassRequest ==
    /\ serverKind = "class"
    /\ \E url \in Routes : HandleRequest(url, InlineSteps)

\* requestHandler of the functional server.
FunctionalRequest ==
    /\ serverKind = "functional"
    /\ \E url \in Routes : HandleRequest(url, applyMiddleware(Pipeline, "routeRequest"))

InitServer ==
    /\ CreateMonitor
    /\ UtilIdle
    /\ maxSnapshots = MaxCap
    /\ onLeak
    /\ TrendIdle
    /\ PairIdle
    /\ serverKind \in {"class", "functional"}
    /\ serverState = createInitialState
    /\ trace = <<>>
    /\ response = NoResponse
    /\ requested = <<>>

NextServer == ClassRequest \/ FunctionalRequest

SpecServer == InitServer /\ [][NextServer]_vars

(***************************************************************************)
(* The trend analyzers as functions of the buffer: analyzeTrend of the     *)
(* monitor with the default threshold, and MemoryMonitor.analyzeTrend of   *)
(* examples/demo.js, applied to every buffer of up to MaxLen snapshots     *)
(* with readings of TrendHeap.                                             *)
(***************************************************************************)
\* The buffers of n snapshots, stamped in capture order.
Buffers(n) ==
    {[i \in 1..n |-> getMemorySnapshot(i, heaps[i])] : heaps \in [1..n -> TrendHeap]}

\* analyzeTrend(measurements, threshold) is called.
AnalyzeTrend ==
    /\ libTrend = NoTrend
    /\ libTrend' = analyzeTrend(measurements, ThresholdNum, ThresholdDen)
    /\ UNCHANGED <<measurements, classTrend, monitorVars, pairVars, serverVars, utilVars>>

\* MemoryMonitor.analyzeTrend() is called on the same measurements.
ClassAnalyzeTrend ==
    /\ classTrend = NoClassTrend
    /\ classTrend' = MemoryMonitor_analyzeTrend(measurements)
    /\ UNCHANGED <<measurements, libTrend, monitorVars, pairVars, serverVars, utilVars>>

InitTrend ==
    /\ CreateMonitor
    /\ UtilIdle
    /\ maxSnapshots = MaxCap
    /\ onLeak
    /\ \E n \in 0..MaxLen : measurements \in Buffers(n)
    /\ libTrend = NoTrend
    /\ classTrend = NoClassTrend
    /\ PairIdle
    /\ ServerIdle

NextTrend == AnalyzeTrend \/ ClassAnalyzeTrend

SpecTrend == InitTrend /\ [][NextTrend]_vars

(***************************************************************************)
(* monitorForDuration (src/lib/memory-monitor.js)                          *)
(***************************************************************************)
\* What the others leave alone.
notDuration == <<monitorVars, trendVars, pairVars, serverVars, loggerVars, cacheVars, emitterVars>>

\* resolve(value) / reject(error): a promise settles at most once; a later
\* resolve or reject of a settled promise does nothing.  value names what it
\* settled with: "snapshots" is the array const snapshots itself, not a copy;
\* length is the length that array had at settlement.
settle(p, state, value, length) ==
    IF p.state = "pending"
    THEN [state |-> state, value |-> value, length |-> length]
    ELSE p

\* Faulty variants: the duration timeout resolves without clearing the
\* interval; a failed capture rejects without clearing it.
AfterDurationRunning(active) == active \ {"timeout"}

AfterDurationErrorRunning(active) == active

\* The timers left when the duration timeout has fired: the timeout itself is
\* spent and its callback clears the interval.
AfterDuration(active) == clearInterval("interval", active \ {"timeout"})

\* The timers left when a capture has thrown: the catch clears the interval;
\* the duration timeout stays scheduled.
AfterDurationError(active) == clearInterval("interval", active)

\* monitorForDuration(durationMs, intervalMs): both timers are scheduled and
\* the pending promise is returned.
MonitorForDuration ==
    /\ promise.state = "none"
    /\ durSnapshots' = <<>>
    /\ durTimers' = {"interval", "timeout"}
    /\ promise' = [state |-> "pending", value |-> "none", length |-> 0]
    /\ durOp' = "call"
    /\ UNCHANGED notDuration

\* One expiry of the interval: the snapshot is pushed, or the capture throws,
\* the interval is cleared and the promise is rejected with the error.
DurationTick(captureFails, heapUsed) ==
    /\ "interval" \in durTimers
    /\ IF captureFails
       THEN /\ durTimers' = AfterDurationError(durTimers)
            /\ promise' = settle(promise, "rejected", "error", Len(durSnapshots))
            /\ durOp' = "captureError"
            /\ UNCHANGED durSnapshots
       ELSE /\ Len(durSnapshots) < MaxTicks
            /\ durSnapshots' = Append(durSnapshots,
                                       getMemorySnapshot(Len(durSnapshots) + 1, heapUsed))
            /\ durOp' = "tick"
            /\ UNCHANGED <<durTimers, promise>>
    /\ UNCHANGED notDuration

\* The duration timeout fires: the interval is cleared and the promise is
\* resolved with the snapshots array.
DurationExpires ==
    /\ "timeout" \in durTimers
    /\ durTimers' = AfterDuration(durTimers)
    /\ promise' = settle(promise, "resolved", "snapshots", Len(durSnapshots))
    /\ durOp' = "timeout"
    /\ UNCHANGED durSnapshots
    /\ UNCHANGED notDuration

DurationTickStep == \E captureFails \in BOOLEAN, heapUsed \in HeapValues :
                        DurationTick(captureFails, heapUsed)

InitDuration ==
    /\ CreateMonitor
    /\ maxSnapshots = MaxCap
    /\ onLeak
    /\ TrendIdle
    /\ PairIdle
    /\ ServerIdle
    /\ UtilIdle

NextDuration == MonitorForDuration \/ DurationTickStep \/ DurationExpires

\* The host fires a scheduled timeout.
SpecDuration == InitDuration /\ [][NextDuration]_vars /\ WF_vars(DurationExpires)

(***************************************************************************)
(* createMemoryLogger (src/lib/memory-monitor.js)                          *)
(***************************************************************************)
notLogger == <<monitorVars, trendVars, pairVars, serverVars, durationVars, cacheVars, emitterVars>>

\* monitor() of the logger: one snapshot is captured and logged.  by tells
\* whether start() itself or a timer callback ran it, timer which timer.
logMemorySnapshot(by, timerId, heapUsed, log) ==
    Append(log, [by |-> by, timer |-> timerId,
                 snapshot |-> getMemorySnapshot(Len(log) + 1, heapUsed)])

\* Faulty variant of start(): the first log waits for the first expiry.
LoggerStartLazy(heapUsed) ==
    /\ loggerStarted < MaxStarts
    /\ Len(logged) < MaxTicks
    /\ loggerStarted' = loggerStarted + 1
    /\ loggerTimers' = loggerTimers \cup {loggerStarted + 1}
    /\ loggerOp' = [NoLoggerOp EXCEPT !.op = "start", !.handle = loggerStarted + 1]
    /\ UNCHANGED <<logged, loggerInvoked>>
    /\ UNCHANGED notLogger

\* start(): logs at once, then schedules the interval and returns its cleanup.
LoggerStart(heapUsed) ==
    /\ loggerStarted < MaxStarts
    /\ Len(logged) < MaxTicks
    /\ logged' = logMemorySnapshot("start", loggerStarted + 1, heapUsed, logged)
    /\ loggerStarted' = loggerStarted + 1
    /\ loggerTimers' = loggerTimers \cup {loggerStarted + 1}
    /\ loggerOp' = [NoLoggerOp EXCEPT !.op = "start", !.handle = loggerStarted + 1]
    /\ UNCHANGED loggerInvoked
    /\ UNCHANGED notLogger

\* One expiry of interval timer t: monitor() logs one snapshot.
LoggerTick(t, heapUsed) ==
    /\ t \in loggerTimers
    /\ Len(logged) < MaxTicks
    /\ logged' = logMemorySnapshot("timer", t, heapUsed, logged)
    /\ loggerOp' = [NoLoggerOp EXCEPT !.op = "tick", !.handle = t]
    /\ UNCHANGED <<loggerStarted, loggerTimers, loggerInvoked>>
    /\ UNCHANGED notLogger

\* The cleanup the h-th start() returned is invoked.
LoggerStop(h) ==
    /\ h \in 1..loggerStarted
    /\ loggerTimers' = createTimerCleanup(h, loggerTimers)
    /\ loggerInvoked' = loggerInvoked \cup {h}
    /\ loggerOp' = [NoLoggerOp EXCEPT !.op = "stop", !.handle = h,
                                      !.again = (h \in loggerInvoked)]
    /\ UNCHANGED <<logged, loggerStarted>>
    /\ UNCHANGED notLogger

LoggerStartStep == \E heapUsed \in HeapValues : LoggerStart(heapUsed)

LoggerTickStep == \E t \in loggerTimers, heapUsed \in HeapValues : LoggerTick(t, heapUsed)

LoggerStopStep == \E h \in 1..loggerStarted : LoggerStop(h)

InitLogger ==
    /\ CreateMonitor
    /\ maxSnapshots = MaxCap
    /\ onLeak
    /\ TrendIdle
    /\ PairIdle
    /\ ServerIdle
    /\ UtilIdle

NextLogger == LoggerStartStep \/ LoggerTickStep \/ LoggerStopStep

SpecLogger == InitLogger /\ [][NextLogger]_vars

(***************************************************************************)
(* createManagedCache (timer example)                                      *)
(***************************************************************************)
notCache == <<monitorVars, trendVars, pairVars, serverVars, durationVars, loggerVars, emitterVars>>

\* An array is held as the number of its leading `cache-${id}` entries and the
\* `update-${n}` entries behind them, by n.
ArrayLength(arr) == arr.filled + Len(arr.updates)

\* createCacheData(id, size): new Array(size).fill(`cache-${id}`), updateCount 0.
createCacheData(id, size) ==
    [id |-> id, cache |-> [filled |-> size, updates |-> <<>>], updateCount |-> 0]

\* Faulty variant of updateCache: the count moves and the array does not.
updateCacheCountOnly(state) == [state EXCEPT !.updateCount = @ + 1]

\* updateCache(state): a new state with updateCount + 1 and
\* [...state.cache, `update-${state.updateCount + 1}`].
updateCache(state) ==
    [state EXCEPT !.updateCount = @ + 1,
                  !.cache = [@ EXCEPT !.updates = Append(@, state.updateCount + 1)]]

\* createManagedCache(id): let state = createCacheData(id), and the interval
\* is scheduled.
CreateManagedCache(id) ==
    /\ cacheState = NoCacheState
    /\ cacheState' = createCacheData(id, CacheSize)
    /\ cacheTimer' = {id}
    /\ cacheOp' = "create"
    /\ UNCHANGED observed
    /\ UNCHANGED notCache

\* One expiry of the interval: state = updateCache(state).
CacheTick ==
    /\ cacheTimer # {}
    /\ cacheState.updateCount < MaxUpdates
    /\ cacheState' = updateCache(cacheState)
    /\ cacheOp' = "tick"
    /\ UNCHANGED <<cacheTimer, observed>>
    /\ UNCHANGED notCache

\* getState(): ({ ...state }).
GetState ==
    /\ cacheState # NoCacheState
    /\ observed' = [id |-> cacheState.id, cache |-> cacheState.cache,
                    updateCount |-> cacheState.updateCount]
    /\ cacheOp' = "getState"
    /\ UNCHANGED <<cacheState, cacheTimer>>
    /\ UNCHANGED notCache

\* cleanup(): createTimerCleanup(timerId) is invoked.
CacheCleanup ==
    /\ cacheState # NoCacheState
    /\ cacheTimer' = createTimerCleanup(cacheState.id, cacheTimer)
    /\ cacheOp' = "cleanup"
    /\ UNCHANGED <<cacheState, observed>>
    /\ UNCHANGED notCache

CreateManagedCacheStep == \E id \in 1..MaxCacheId : CreateManagedCache(id)

InitCache ==
    /\ CreateMonitor
    /\ maxSnapshots = MaxCap
    /\ onLeak
    /\ TrendIdle
    /\ PairIdle
    /\ ServerIdle
    /\ UtilIdle

NextCache == CreateManagedCacheStep \/ CacheTick \/ GetState \/ CacheCleanup

SpecCache == InitCache /\ [][NextCache]_vars

(***************************************************************************)
(* createManagedProcessor and createLeakyProcessor (event example)         *)
(***************************************************************************)
notEmitter == <<monitorVars, trendVars, pairVars, serverVars, durationVars, loggerVars, cacheVars>>

\* Every call makes a new handler function: a handler is named by the kind of
\* processor it belongs to and the number of the call that made it.
NextHandler(kind) == [kind |-> kind, id |-> leakyProcessors + Len(managedResources) + 1]

\* emitter.on(event, handler): the handler is added behind the others.
on(handler, ls) == Append(ls, handler)

\* emitter.removeListener(event, handler): the most recently added instance
\* of handler is removed, if there is one.
removeListener(handler, ls) ==
    LET at == {i \in 1..Len(ls) : ls[i] = handler}
    IN  IF at = {} THEN ls
        ELSE LET k == CHOOSE i \in at : \A j \in at : j <= i
             IN  SubSeq(ls, 1, k - 1) \o SubSeq(ls, k + 1, Len(ls))

\* createEventCleanup(emitter, event, handler) =
\*   () => emitter.removeListener(event, handler)
createEventCleanup(handler, ls) == removeListener(handler, ls)

\* createLeakyProcessor(globalEmitter, id): a listener is added and nothing
\* that could remove it is kept.
CreateLeakyProcessor ==
    /\ leakyProcessors < MaxLeaky
    /\ listeners' = on(NextHandler("leaky"), listeners)
    /\ leakyProcessors' = leakyProcessors + 1
    /\ emitterOp' = [NoEmitterOp EXCEPT !.op = "leaky"]
    /\ UNCHANGED <<managedResources, cleaned>>
    /\ UNCHANGED notEmitter

\* Faulty variant of createManagedProcessor: the function registered is a
\* wrapper and not the handler the cleanup is made for.
CreateManagedProcessorWrapped ==
    /\ Len(managedResources) < MaxManaged
    /\ listeners' = on([NextHandler("managed") EXCEPT !.kind = "wrapper"], listeners)
    /\ managedResources' = Append(managedResources, NextHandler("managed"))
    /\ emitterOp' = [NoEmitterOp EXCEPT !.op = "managed",
                                        !.resource = Len(managedResources) + 1]
    /\ UNCHANGED <<leakyProcessors, cleaned>>
    /\ UNCHANGED notEmitter

\* createManagedProcessor(globalEmitter, id): the handler is registered and
\* returned with the cleanup made for that same handler.
CreateManagedProcessor ==
    /\ Len(managedResources) < MaxManaged
    /\ listeners' = on(NextHandler("managed"), listeners)
    /\ managedResources' = Append(managedResources, NextHandler("managed"))
    /\ emitterOp' = [NoEmitterOp EXCEPT !.op = "managed",
                                        !.resource = Len(managedResources) + 1]
    /\ UNCHANGED <<leakyProcessors, cleaned>>
    /\ UNCHANGED notEmitter

\* The cleanup of the k-th managed resource is invoked.
ManagedCleanup(k) ==
    /\ k \in 1..Len(managedResources)
    /\ listeners' = createEventCleanup(managedResources[k], listeners)
    /\ cleaned' = cleaned \cup {k}
    /\ emitterOp' = [NoEmitterOp EXCEPT !.op = "cleanup", !.resource = k,
                                        !.again = (k \in cleaned)]
    /\ UNCHANGED <<leakyProcessors, managedResources>>
    /\ UNCHANGED notEmitter

ManagedCleanupStep == \E k \in 1..Len(managedResources) : ManagedCleanup(k)

InitEmitter ==
    /\ CreateMonitor
    /\ maxSnapshots = MaxCap
    /\ onLeak
    /\ TrendIdle
    /\ PairIdle
    /\ ServerIdle
    /\ UtilIdle

NextEmitter == CreateLeakyProcessor \/ CreateManagedProcessor \/ ManagedCleanupStep

SpecEmitter == InitEmitter /\ [][NextEmitter]_vars

(***************************************************************************)
(* Properties of the monitor.                                              *)
(***************************************************************************)
\* The last n snapshots captured, in capture order.
LastCaptured(n) == SubSeq(captured, Len(captured) - n + 1, Len(captured))

\* C1: for maxSnapshots >= 1, the buffer holds at most maxSnapshots snapshots
\* after every tick.
C1_BufferBounded == Len(snapshots) <= maxSnapshots

\* C1 witness: a tick has evicted: more snapshots were captured than fit.
C1_Witness ==
    /\ lastOp.op = "tick"
    /\ Len(captured) > maxSnapshots
    /\ Len(snapshots) = maxSnapshots

\* C2: strict FIFO window: after k captures the buffer is the last
\* min(k, maxSnapshots) captured snapshots, oldest first.
C2_FifoWindow == snapshots = LastCaptured(Min(Len(captured), maxSnapshots))

\* C2 witness: a window of several snapshots has slid by at least two.
C2_Witness ==
    /\ maxSnapshots >= 3
    /\ Len(captured) >= maxSnapshots + 2
    /\ snapshots[1].timestamp = Len(captured) - maxSnapshots + 1

\* C3: for a monitor started once, after its stop handle has been invoked no
\* tick runs: the buffer, the captures and the onLeak calls stay as they are.
C3_NoTickAfterStop ==
    [][(started = 1 /\ 1 \in invoked)
         => /\ snapshots' = snapshots
            /\ captured' = captured
            /\ leakCalls' = leakCalls
            /\ lastOp'.op # "tick"]_vars

\* C3 witness: the monitor ticked, then its only stop handle was invoked.
C3_Witness ==
    /\ started = 1
    /\ 1 \in invoked
    /\ lastOp.op = "stop"
    /\ Len(captured) >= 1
    /\ Len(captured) < MaxTicks

\* C4: invoking a stop handle again raises nothing, runs no tick and leaves
\* the monitor as the first invocation left it.
C4_StopIdempotent ==
    [][(lastOp'.again)
         => /\ timers' = timers
            /\ invoked' = invoked
            /\ started' = started
            /\ lastOp'.op = "stop"
                 => /\ lastOp'.outcome = "ok"
                    /\ UNCHANGED <<alive, snapshots, captured, leakCalls>>]_vars

\* C4 witness: a handle was invoked a second time while another timer runs.
C4_Witness ==
    /\ lastOp.op = "stop"
    /\ lastOp.again
    /\ timers # {}


\* The heapUsed readings captured so far, in capture order.
HeapSeq == [i \in 1..Len(captured) |-> captured[i].heapUsed]

\* The newest snapshot of the buffer exceeds the oldest by more than the
\* threshold.
Growing ==
    /\ Len(snapshots) >= 2
    /\ snapshots[Len(snapshots)].heapUsed * ThresholdDen
         > snapshots[1].heapUsed * ThresholdNum

\* The last operation was a tick that captured and appended a snapshot.
Appended == lastOp.op = "tick" /\ lastOp.outcome # "captureError"

\* C5 as stated: on every tick that leaves at least 2 snapshots in the buffer,
\* a growing verdict is reported to the supplied onLeak in that tick.
C5_NotifyFromTwoSamples ==
    (Appended /\ Len(snapshots) >= 2 /\ Growing /\ onLeak) => lastOp.notified

\* C5 amended: on every tick, once the snapshot is appended, onLeak is invoked
\* in that tick exactly when the buffer holds at least 5 snapshots, the verdict
\* over the full buffer is growing and a callback was supplied; it receives
\* the trend of that buffer.
C5_NotifyFromFiveSamples ==
    Appended =>
        /\ lastOp.notified <=> (Len(snapshots) >= 5 /\ Growing /\ onLeak)
        /\ lastOp.notified =>
              /\ leakCalls # <<>>
              /\ leakCalls[Len(leakCalls)].buffer = snapshots
              /\ leakCalls[Len(leakCalls)].trend
                   = analyzeTrend(snapshots, ThresholdNum, ThresholdDen)

\* C5 witness: the tick that brought the buffer to 5 snapshots notified.
C5_Witness ==
    /\ Appended
    /\ lastOp.notified
    /\ Len(captured) = 5

\* C6 as stated: maxSnapshots 3, threshold 1.1, heapUsed 100, 100, 140: after
\* the third tick onLeak was invoked exactly once, with growth rate 40.00.
C6_ScenarioThree ==
    (maxSnapshots = 3 /\ onLeak /\ HeapSeq = <<100, 100, 140>>)
        => /\ Len(leakCalls) = 1
           /\ leakCalls[1].trend.growthRate = 4000

\* C6 amended: in that scenario onLeak is not invoked at all; with
\* maxSnapshots 5 and heapUsed 100, 100, 100, 100, 140 it is invoked exactly
\* once, on the fifth tick, with growth rate 40.00.
C6_ScenarioFive ==
    /\ (maxSnapshots = 3 /\ onLeak /\ HeapSeq = <<100, 100, 140>>)
          => leakCalls = <<>>
    /\ (maxSnapshots = 5 /\ onLeak /\ Len(captured) <= 5
           /\ HeapSeq = SubSeq(<<100, 100, 100, 100, 140>>, 1, Len(captured)))
          => IF Len(captured) < 5
             THEN leakCalls = <<>>
             ELSE /\ Len(leakCalls) = 1
                  /\ leakCalls[1].trend.growthRate = 4000
                  /\ leakCalls[1].trend.isGrowing

\* C6 witness: the five-tick scenario has run to its notification.
C6_Witness ==
    /\ maxSnapshots = 5
    /\ onLeak
    /\ HeapSeq = <<100, 100, 100, 100, 140>>
    /\ Len(leakCalls) = 1

\* C7 as stated: at most one sampling timer is scheduled at a time, and one
\* invocation of a stop handle leaves no scheduled tick.
C7_SingleTimer ==
    /\ Cardinality(timers) <= 1
    /\ lastOp.op = "stop" => timers = {}

\* C7 amended: every start() schedules a timer of its own and a stop handle
\* cancels exactly the timer of the start() that returned it: the scheduled
\* timers are those of the start() calls whose handle was not invoked yet.
C7_OneTimerPerStart == timers = (1..started) \ invoked

\* C7 witness: two start() calls, the first handle invoked, the second
\* timer still scheduled.
C7_Witness ==
    /\ started = 2
    /\ invoked = {1}
    /\ lastOp.op = "stop"
    /\ timers = {2}

\* C8 as stated: after a tick whose capture failed the monitor has no timer
\* scheduled any more, so that no tick follows in a host that lives on.
C8_StopsOnCaptureError ==
    (lastOp.op = "tick" /\ lastOp.outcome = "captureError" /\ alive) => timers = {}

\* C8 amended: a capture failure leaves the tick as an uncaught exception;
\* that tick appends nothing and invokes no onLeak, and the monitor cancels
\* nothing: the timer that fired stays scheduled.
C8_CaptureErrorPropagates ==
    [][(lastOp'.op = "tick" /\ lastOp'.outcome = "captureError")
         => /\ UNCHANGED <<snapshots, captured, leakCalls, timers, invoked, started>>
            /\ timers' # {}
            /\ ~lastOp'.notified]_vars

\* C8 witness: after a snapshot was captured a capture failed; the host
\* survived and the timer is still scheduled.
C8_Witness ==
    /\ lastOp.op = "tick"
    /\ lastOp.outcome = "captureError"
    /\ alive
    /\ timers # {}
    /\ Len(captured) >= 1

\* C9: an exception of onLeak is not caught in the tick: it leaves the timer
\* callback, and onLeak was invoked once in that tick.
C9_OnLeakErrorPropagates ==
    [][(lastOp'.op = "tick" /\ lastOp'.threw)
         => /\ lastOp'.outcome = "onLeakError"
            /\ Len(leakCalls') = Len(leakCalls) + 1]_vars

\* C9 witness: onLeak threw in a tick.
C9_Witness ==
    /\ lastOp.op = "tick"
    /\ lastOp.threw
    /\ leakCalls # <<>>

\* C10: getSnapshots() returns a copy: a change the caller makes to a returned
\* array changes nothing of the monitor, a later getSnapshots() returns the
\* monitor's buffer, and the trend of a later tick is that of the snapshots
\* captured.
C10_CopyOut ==
    [][/\ lastOp'.op = "mutate"
           => UNCHANGED <<config, alive, snapshots, started, timers, invoked,
                          captured, leakCalls>>
       /\ lastOp'.op = "get"
           => /\ returned' = LastCaptured(Min(Len(captured), maxSnapshots))
              /\ snapshots' = snapshots
       /\ (lastOp'.op = "tick" /\ lastOp'.notified)
           => LET window == SubSeq(captured', Len(captured') - Min(Len(captured'), maxSnapshots) + 1,
                                   Len(captured'))
              IN /\ leakCalls'[Len(leakCalls')].buffer = window
                 /\ leakCalls'[Len(leakCalls')].trend
                      = analyzeTrend(window, ThresholdNum, ThresholdDen)]_vars

\* C10 witness: the caller changed the array it got, and a later tick
\* analysed the monitor's buffer and notified.
C10_Witness ==
    /\ lastOp.op = "tick"
    /\ lastOp.notified
    /\ mutations >= 1
    /\ returned # <<>>

\* C11: the monitor is Running from start() on and only an invocation of a
\* stop handle unschedules a timer: no tick, full buffer, onLeak call or
\* getSnapshots() does; while no handle has been invoked and the host lives,
\* ticks keep coming (here: up to the MaxTicks captures explored).
C11_RunsUntilStopped ==
    /\ [][/\ lastOp'.op = "start" => timers' # {}
          /\ timers' # timers
               => \/ lastOp'.op = "start"
                  \/ lastOp'.op = "stop"
                  \/ lastOp'.op = "tick" /\ lastOp'.handle # 0]_vars
    /\ (timers # {}) ~> (Len(captured) = MaxTicks \/ invoked # {} \/ ~alive)

\* C11 witness: never stopped, the monitor ticked on past a full buffer, an
\* onLeak call and a getSnapshots() call.
C11_Witness ==
    /\ invoked = {}
    /\ timers # {}
    /\ Len(captured) = MaxTicks
    /\ Len(captured) > maxSnapshots
    /\ leakCalls # <<>>
    /\ returned # <<>>

\* C13: when a stop handle is invoked while a tick is in flight (from inside
\* the onLeak callback), that tick completes: its snapshot is captured and
\* stays the newest of the buffer, the callback was invoked and nothing is
\* raised; the handle's timer is unscheduled, and for a monitor started once
\* no timer is left, so that no later tick runs.
C13_StopInFlight ==
    [][/\ (lastOp'.op = "tick" /\ lastOp'.handle # 0)
            => /\ Len(captured') = Len(captured) + 1
               /\ snapshots' # <<>>
               /\ snapshots'[Len(snapshots')] = captured'[Len(captured')]
               /\ Len(leakCalls') = Len(leakCalls) + 1
               /\ lastOp'.outcome = "ok"
               /\ alive'
               /\ lastOp'.handle \notin timers'
               /\ started = 1 => timers' = {}
       /\ timers = {}
            => /\ lastOp'.op # "tick"
               /\ UNCHANGED <<snapshots, captured, leakCalls>>]_vars

\* C13 witness: the callback of a monitor started once invoked the stop
\* handle in flight, before the captures explored ran out.
C13_Witness ==
    /\ lastOp.op = "tick"
    /\ lastOp.handle = 1
    /\ started = 1
    /\ timers = {}
    /\ snapshots[Len(snapshots)].timestamp = Len(captured)
    /\ Len(captured) < MaxTicks

\* C14: a tick captures, appends with eviction, analyses, then notifies:
\* whenever onLeak is invoked the buffer already ends with the snapshot
\* captured in that tick and holds at most maxSnapshots entries, and the trend
\* handed to onLeak is the analysis of exactly that buffer.
C14_TickOrder ==
    [][leakCalls' # leakCalls
         => LET call == leakCalls'[Len(leakCalls')]
                newest == captured'[Len(captured')]
            IN /\ Len(leakCalls') = Len(leakCalls) + 1
               /\ Len(captured') = Len(captured) + 1
               /\ newest.timestamp = Len(captured')
               /\ call.buffer = snapshots'
               /\ call.buffer[Len(call.buffer)] = newest
               /\ Len(call.buffer) <= maxSnapshots
               /\ call.trend = analyzeTrend(call.buffer, ThresholdNum, ThresholdDen)
               /\ call.trend.isGrowing]_vars

\* C14 witness: onLeak was invoked on a tick that evicted the oldest snapshot
\* and whose buffer grows although the buffer before the tick did not.
C14_Witness ==
    /\ lastOp.op = "tick"
    /\ lastOp.notified
    /\ Len(captured) > maxSnapshots
    /\ leakCalls[Len(leakCalls)].buffer = snapshots
    /\ Len(leakCalls) = 1
    /\ snapshots[1].heapUsed < snapshots[Len(snapshots)].heapUsed
    /\ captured[Len(captured) - maxSnapshots].heapUsed = snapshots[Len(snapshots)].heapUsed

\* C15: a buffer of fewer than 2 snapshots has the verdict isGrowing = FALSE,
\* growth rate 0, confidence "insufficient_data", and onLeak is never invoked
\* on a tick that leaves fewer than 2 snapshots in the buffer: never on the
\* first tick and never for a monitor with maxSnapshots = 1.
C15_NoVerdictBelowTwo ==
    /\ \A k \in 0..Min(1, Len(snapshots)) :
          analyzeTrend(SubSeq(snapshots, 1, k), ThresholdNum, ThresholdDen)
            = [isGrowing |-> FALSE, growthRate |-> 0,
               confidence |-> "insufficient_data"]
    /\ (lastOp.op = "tick" /\ Len(snapshots) < 2) => ~lastOp.notified
    /\ Len(captured) <= 1 => leakCalls = <<>>
    /\ maxSnapshots = 1 => leakCalls = <<>>
    /\ \A i \in 1..Len(leakCalls) :
          /\ Len(leakCalls[i].buffer) >= 2
          /\ leakCalls[i].trend.confidence # "insufficient_data"

\* C15 witness: a monitor of capacity 1 with a callback has ticked several
\* times on readings that rise, its buffer holding the newest snapshot only.
C15_Witness ==
    /\ maxSnapshots = 1
    /\ onLeak
    /\ lastOp.op = "tick"
    /\ Len(snapshots) = 1
    /\ Len(captured) >= 3
    /\ captured[1].heapUsed < captured[Len(captured)].heapUsed

(***************************************************************************)
(* Properties of the trend analyzers.                                      *)
(***************************************************************************)
\* The oldest and the newest reading of the analysed buffer, and the oldest
\* reading of its last RecentCount snapshots.
Oldest == measurements[1].heapUsed

Newest == measurements[Len(measurements)].heapUsed

RecentOldest == keepLast(RecentCount, measurements)[1].heapUsed

\* C16 as stated: for every buffer of at least 2 snapshots the verdict is
\* isGrowing = (newest > oldest * threshold), oldest and newest taken over the
\* whole buffer.
C16_TwoPointAnyBuffer ==
    Len(measurements) >= 2
      => /\ libTrend # NoTrend
              => libTrend.isGrowing = (Newest * ThresholdDen > Oldest * ThresholdNum)
         /\ classTrend # NoClassTrend
              => classTrend.isGrowing = (Newest * ThresholdDen > Oldest * ThresholdNum)

\* C16, amended: for a buffer of at least 2 snapshots analyzeTrend's verdict
\* is isGrowing = (newest > oldest * threshold), strictly, when the oldest
\* reading is positive, and it is in every case the verdict of the buffer of
\* the oldest and the newest snapshot alone; MemoryMonitor.analyzeTrend makes
\* the strict comparison between the newest measurement and the oldest of
\* the last five.
C16_TwoPointVerdict ==
    Len(measurements) >= 2
      => /\ (libTrend # NoTrend /\ Oldest > 0)
              => libTrend.isGrowing = (Newest * ThresholdDen > Oldest * ThresholdNum)
         /\ libTrend # NoTrend
              => libTrend.isGrowing
                   = analyzeTrend(<<measurements[1], measurements[Len(measurements)]>>,
                                  ThresholdNum, ThresholdDen).isGrowing
         /\ classTrend # NoClassTrend
              => /\ classTrend.error = "none"
                 /\ classTrend.isGrowing
                      = (Newest * ClassThresholdDen > RecentOldest * ClassThresholdNum)

\* C16 witness: both analyzers have judged a buffer longer than five whose
\* newest reading is exactly the threshold times the oldest, with larger and
\* smaller readings in between: no growth.
C16_Witness ==
    /\ Len(measurements) > RecentCount
    /\ Oldest = 100
    /\ Newest = 110
    /\ \E i, j \in 2..(Len(measurements) - 1) :
          /\ measurements[i].heapUsed = 120
          /\ measurements[j].heapUsed = 0
    /\ RecentOldest = 100
    /\ libTrend # NoTrend
    /\ classTrend # NoClassTrend
    /\ ~libTrend.isGrowing
    /\ ~classTrend.isGrowing

\* C17: the growth rate is (last - first) / first * 100 rounded to two
\* decimals: with threshold 1.1, first = 100 and last = 120 give isGrowing
\* and 20.00; first = 100 and last = 105 give no growth and 5.00.  The
\* analyzers agree on the rate wherever they compare the same two snapshots.
C17_GrowthRate ==
    /\ (libTrend # NoTrend /\ Len(measurements) >= 2 /\ Oldest > 0)
          => /\ (Oldest = 100 /\ Newest = 120)
                   => (libTrend.isGrowing /\ libTrend.growthRate = 2000)
             /\ (Oldest = 100 /\ Newest = 105)
                   => (~libTrend.isGrowing /\ libTrend.growthRate = 500)
             /\ LET exact == (Newest - Oldest) * 10000
                    off == libTrend.growthRate * Oldest - exact
                IN 2 * off <= Oldest /\ 2 * off >= -Oldest
    /\ (classTrend # NoClassTrend /\ Len(measurements) >= 2)
          => /\ (RecentOldest = 100 /\ Newest = 120)
                   => (classTrend.isGrowing /\ classTrend.growthRate = "20.00")
             /\ (RecentOldest = 100 /\ Newest = 105)
                   => (~classTrend.isGrowing /\ classTrend.growthRate = "5.00")
             /\ (RecentOldest = 120 /\ Newest = 100)
                   => (~classTrend.isGrowing /\ classTrend.growthRate = "-16.67")
             /\ (libTrend # NoTrend /\ Len(measurements) <= RecentCount /\ Oldest > 0)
                   => classTrend.growthRate
                        = toFixed2(libTrend.growthRate < 0, libTrend.growthRate)

\* C17 witness: both analyzers have rated a buffer that goes from 100 to 120
\* past a reading of 105.
C17_Witness ==
    /\ Len(measurements) >= 3
    /\ Oldest = 100
    /\ RecentOldest = 100
    /\ Newest = 120
    /\ measurements[2].heapUsed = 105
    /\ libTrend.growthRate = 2000
    /\ libTrend.confidence # "none"
    /\ classTrend.growthRate = "20.00"

\* C18 as stated: when the oldest snapshot analysed has heapUsed = 0, the
\* analysis raises nothing and yields growth rate 0 and isGrowing = FALSE,
\* whatever the newest reading is.
C18_ZeroBaseline ==
    (Len(measurements) >= 2 /\ Oldest = 0)
      => /\ libTrend # NoTrend
              => (libTrend.growthRate = 0 /\ ~libTrend.isGrowing)
         /\ (classTrend # NoClassTrend /\ RecentOldest = 0)
              => /\ classTrend.error = "none"
                 /\ classTrend.growthRate = "0.00"
                 /\ ~classTrend.isGrowing

(***************************************************************************)
(* Properties of two monitors.                                             *)
(***************************************************************************)
\* C12: two monitors are independent under every interleaving: a tick, a
\* start or a stop of one leaves the other's buffer and the other's timers
\* as they are (stopping one does not stop the other's sampling), and a tick
\* appends its snapshot to the buffer of the monitor that ticked.
C12_Independent ==
    [][\A m \in Monitors :
          /\ m # pairOp'.monitor
               => /\ closures'[m] = closures[m]
                  /\ TimersOf(m, hostTimers', handles') = TimersOf(m, hostTimers, handles)
          /\ (m = pairOp'.monitor /\ pairOp'.op = "tick")
               => /\ closures'[m].snapshots # <<>>
                  /\ closures'[m].snapshots[Len(closures'[m].snapshots)].timestamp
                        = pairClock'
                  /\ closures'[m].snapshots
                        = addSnapshot(getMemorySnapshot(pairClock',
                              closures'[m].snapshots[Len(closures'[m].snapshots)].heapUsed),
                            closures[m].snapshots)]_vars

\* C12 witness: both monitors have sampled, one was then stopped, and the
\* other has ticked since, its timer still scheduled.
C12_Witness ==
    /\ closures[1].snapshots # <<>>
    /\ closures[2].snapshots # <<>>
    /\ TimersOf(1, hostTimers, handles) = {}
    /\ TimersOf(2, hostTimers, handles) # {}
    /\ pairOp.op = "tick"
    /\ pairOp.monitor = 2
    /\ closures[2].snapshots[Len(closures[2].snapshots)].timestamp
         > closures[1].snapshots[Len(closures[1].snapshots)].timestamp

(***************************************************************************)
(* Properties of the leaky servers.                                        *)
(***************************************************************************)
\* C19 as stated: applyMiddleware(m1, m2, m3)(req, res, handler) runs m1,
\* m2, m3, then the handler, each once; the functional server runs
\* logRequest (which increments the request count) before cacheRequest,
\* createSession and getConnection, and the route handler last.
C19_PipelineOrder ==
    (serverKind = "functional" /\ requested # <<>>)
      => /\ applyMiddleware(<<"m1", "m2", "m3">>, "handler")
               = <<"m1", "m2", "m3", "handler">>
         /\ trace = <<"logRequest", "cacheRequest", "createSession",
                      "getConnection", "routeRequest">>

C21_NoCallback ==
    [][(~onLeak /\ lastOp'.op = "tick")
         => /\ ~lastOp'.notified
            /\ ~lastOp'.threw
            /\ leakCalls' = <<>>
            /\ lastOp'.outcome \in {"ok", "captureError"}
            /\ lastOp'.outcome = "ok"
                 => /\ alive'
                    /\ timers' = timers
                    /\ Len(captured') = Len(captured) + 1
                    /\ snapshots' # <<>>
                    /\ snapshots'[Len(snapshots')] = captured'[Len(captured')]
                    /\ Len(snapshots') = Min(Len(snapshots) + 1, maxSnapshots)]_vars

\* C21 witness: a monitor without callback has ticked onto a buffer of five
\* snapshots whose newest reading exceeds the oldest by more than the
\* threshold.
C21_Witness ==
    /\ ~onLeak
    /\ lastOp.op = "tick"
    /\ lastOp.outcome = "ok"
    /\ Len(snapshots) >= MinSamples
    /\ analyzeTrend(snapshots, ThresholdNum, ThresholdDen).isGrowing
    /\ leakCalls = <<>>

\* C25: start() captures nothing: it leaves the buffer as it is, the buffer
\* is empty until the first timer expiry, and a monitor stopped before the
\* first expiry keeps an empty buffer.
C25_StartCapturesNothing ==
    /\ [](captured = <<>> => snapshots = <<>>)
    /\ [][/\ lastOp'.op = "start"
               => UNCHANGED <<snapshots, captured, leakCalls>>
          /\ (captured = <<>> /\ timers = {})
               => (snapshots' = <<>> /\ captured' = <<>>)]_vars

\* C25 witness: the monitor was started and its handle invoked before any
\* timer expired.
C25_Witness ==
    /\ started = 1
    /\ invoked = {1}
    /\ lastOp.op = "stop"
    /\ timers = {}
    /\ captured = <<>>
    /\ snapshots = <<>>

\* C26: invoking a stop handle leaves the buffer as it is (getSnapshots()
\* returns the same sequence before and after), a start() leaves it too, and
\* a tick after a restart appends to the buffer the earlier ticks filled.
C26_StopKeepsBuffer ==
    [][/\ lastOp'.op = "stop"
            => (snapshots' = snapshots /\ getSnapshots'.array = getSnapshots.array)
       /\ (lastOp'.op = "start" /\ invoked # {})
            => getSnapshots'.array = getSnapshots.array
       /\ (lastOp'.op = "tick" /\ lastOp'.outcome # "captureError" /\ invoked # {})
            => snapshots' = keepLast(maxSnapshots,
                                     snapshots \o <<captured'[Len(captured')]>>)]_vars

\* C26 witness: the monitor sampled, was stopped, and has just been started
\* again with the snapshots of the first run in its buffer.
C26_Witness ==
    /\ lastOp.op = "start"
    /\ started = 2
    /\ invoked = {1}
    /\ timers = {2}
    /\ Len(snapshots) >= 2
    /\ snapshots = captured

\* C27: when onLeak throws during a tick, the snapshot of that tick stays the
\* newest of the buffer and no timer is unscheduled; in a host that survives,
\* the next expiry can run.
C27_OnLeakErrorKeepsSampling ==
    /\ []((lastOp.threw /\ alive /\ Len(captured) < MaxTicks)
            => (timers # {} /\ ENABLED TickCopy))
    /\ [][lastOp'.threw
            => /\ timers' = timers
               /\ timers' # {}
               /\ invoked' = invoked
               /\ Len(captured') = Len(captured) + 1
               /\ snapshots' # <<>>
               /\ snapshots'[Len(snapshots')] = captured'[Len(captured')]
               /\ Len(leakCalls') = Len(leakCalls) + 1]_vars

\* C27 witness: onLeak threw on the fifth capture, the host survived, and the
\* timer is still scheduled with captures left to make.
C27_Witness ==
    /\ lastOp.op = "tick"
    /\ lastOp.threw
    /\ alive
    /\ timers # {}
    /\ invoked = {}
    /\ Len(captured) < MaxTicks
    /\ snapshots[Len(snapshots)].timestamp = Len(captured)

(***************************************************************************)
(* Properties of monitorForDuration.                                       *)
(***************************************************************************)
Settled == promise.state \in {"resolved", "rejected"}

\* C22: the promise of monitorForDuration settles exactly once: a settled
\* promise never changes and a pending one settles in the end; with no failed
\* capture the duration timeout resolves it with the snapshots array as the
\* captures left it, every capture having appended one snapshot; once it has
\* settled the interval is cleared and the array keeps the length it had.
C22_SettlesOnce ==
    /\ [](Settled => ("interval" \notin durTimers /\ Len(durSnapshots) = promise.length))
    /\ [][/\ Settled => promise' = promise
          /\ durOp' = "tick" => /\ Len(durSnapshots') = Len(durSnapshots) + 1
                                /\ SubSeq(durSnapshots', 1, Len(durSnapshots)) = durSnapshots
          /\ (promise.state = "pending" /\ durOp' = "timeout")
               => /\ promise' = [state |-> "resolved", value |-> "snapshots",
                                 length |-> Len(durSnapshots)]
                  /\ durSnapshots' = durSnapshots]_vars
    /\ (promise.state = "pending" ~> Settled)

\* C22 witness: the promise was resolved with an array of three snapshots.
C22_Witness ==
    promise.state = "resolved" /\ promise.length = 3 /\ Len(durSnapshots) = 3

\* C23: a capture that throws clears the interval at once and rejects the
\* promise with the error; the duration timeout that fires afterwards leaves
\* the promise rejected and the array as it was.
C23_CaptureErrorRejects ==
    [][/\ (promise.state = "pending" /\ durOp' = "captureError")
            => /\ "interval" \notin durTimers'
               /\ promise'.state = "rejected"
               /\ promise'.value = "error"
               /\ durSnapshots' = durSnapshots
       /\ promise.state = "rejected"
            => /\ promise' = promise
               /\ durSnapshots' = durSnapshots
               /\ "interval" \notin durTimers']_vars

\* C23 witness: the duration timeout has fired on a promise a failed capture
\* had rejected after two snapshots.
C23_Witness ==
    /\ promise.state = "rejected"
    /\ durOp = "timeout"
    /\ Len(durSnapshots) = 2

(***************************************************************************)
(* Properties of createMemoryLogger.                                       *)
(***************************************************************************)
\* C24: start() has logged one snapshot and scheduled its interval when it
\* returns; every expiry of a scheduled interval logs one more; a timer whose
\* cleanup has been invoked logs nothing further; and a cleanup can always be
\* invoked again, which changes neither the timers nor the log.
C24_LogsAtOnceThenPerTick ==
    /\ [](\A h \in loggerInvoked : h \notin loggerTimers /\ ENABLED LoggerStop(h))
    /\ [][/\ loggerOp'.op = "start"
             => /\ Len(logged') = Len(logged) + 1
                /\ SubSeq(logged', 1, Len(logged)) = logged
                /\ logged'[Len(logged')].by = "start"
                /\ loggerStarted' \in loggerTimers'
          /\ loggerOp'.op = "tick"
             => /\ Len(logged') = Len(logged) + 1
                /\ SubSeq(logged', 1, Len(logged)) = logged
                /\ logged'[Len(logged')].by = "timer"
                /\ loggerOp'.handle \notin loggerInvoked
          /\ loggerOp'.op = "stop"
             => /\ logged' = logged
                /\ loggerOp'.handle \notin loggerTimers'
                /\ loggerOp'.again => loggerTimers' = loggerTimers]_vars

\* C24 witness: the logger logged at start and on two expiries, and its
\* cleanup has been invoked a second time.
C24_Witness ==
    /\ loggerOp.op = "stop"
    /\ loggerOp.again
    /\ Len(logged) = 3
    /\ logged[1].by = "start"
    /\ logged[2].by = "timer"
    /\ logged[3].by = "timer"

(***************************************************************************)
(* Properties of createManagedCache.                                       *)
(***************************************************************************)
\* C28: every tick of a managed cache raises updateCount by one and the length
\* of the cache by one, so the length is the initial size plus updateCount in
\* every state; once cleanup() has been invoked the state never changes and
\* getState() keeps returning the same state.
C28_LengthTracksUpdates ==
    /\ [](cacheState # NoCacheState
            => ArrayLength(cacheState.cache) = CacheSize + cacheState.updateCount)
    /\ [][/\ cacheOp' = "tick"
             => /\ cacheState'.updateCount = cacheState.updateCount + 1
                /\ ArrayLength(cacheState'.cache) = ArrayLength(cacheState.cache) + 1
          /\ cacheOp' = "cleanup" => cacheTimer' = {}
          /\ cacheOp' = "getState" => observed' = cacheState
          /\ (cacheState # NoCacheState /\ cacheTimer = {})
             => /\ cacheState' = cacheState
                /\ cacheTimer' = {}
                /\ (cacheOp = "getState" /\ cacheOp' = "getState") => observed' = observed]_vars

\* C28 witness: getState() after cleanup() returned the state three ticks
\* had left.
C28_Witness ==
    /\ cacheOp = "getState"
    /\ cacheTimer = {}
    /\ observed.updateCount = 3
    /\ ArrayLength(observed.cache) = CacheSize + 3

(***************************************************************************)
(* Properties of the managed and the leaky processors.                     *)
(***************************************************************************)
\* The listeners of ls other than handler h, in order.
Without(h, ls) == SelectSeq(ls, LAMBDA x : x # h)

Registered(h, ls) == \E i \in 1..Len(ls) : ls[i] = h

\* C29: a createManagedProcessor call adds exactly one listener; the first
\* invocation of its cleanup removes that listener and no other, a repeated
\* invocation removes nothing; no step removes the listener of a leaky
\* processor; and when every managed cleanup has run, the listener count is
\* the number of leaky processors created.
C29_CleanupRemovesOwnListener ==
    /\ [](cleaned = 1..Len(managedResources) => Len(listeners) = leakyProcessors)
    /\ [][/\ emitterOp'.op = "managed"
             => /\ Len(listeners') = Len(listeners) + 1
                /\ listeners' = Append(listeners, managedResources'[emitterOp'.resource])
                /\ ~Registered(managedResources'[emitterOp'.resource], listeners)
          /\ (emitterOp'.op = "cleanup" /\ ~emitterOp'.again)
             => /\ Len(listeners') = Len(listeners) - 1
                /\ listeners' = Without(managedResources[emitterOp'.resource], listeners)
          /\ (emitterOp'.op = "cleanup" /\ emitterOp'.again) => listeners' = listeners
          /\ \A i \in 1..Len(listeners) :
                listeners[i].kind = "leaky" => Registered(listeners[i], listeners')]_vars

\* C29 witness: two leaky and two managed processors were created, both
\* managed cleanups have run and one of them has been invoked again: the two
\* leaky listeners are what is left.
C29_Witness ==
    /\ emitterOp.op = "cleanup"
    /\ emitterOp.again
    /\ leakyProcessors = 2
    /\ Len(managedResources) = 2
    /\ cleaned = {1, 2}
    /\ Len(listeners) = 2

====
